---- MODULE Spec2Model ----
(***************************************************************************)
(* Tender ingestion pipeline of main.py: load_tenders (paginated fetch,    *)
(* per-tender transform with attachment enrichment, header reconciliation  *)
(* and batch append to the spreadsheet), ensure_header, fetch_attachments   *)
(* and the process-wide error log of ErrorNotificationManager.            *)
(***************************************************************************)
EXTENDS Integers, Sequences, FiniteSets, TLC

\* ---------------------------------------------------------------- bounds
\* The remote API serves at most MaxTenders tenders in one date window.
MaxTenders == 2
\* The attachment API lists at most MaxAtt items for one tender.
MaxAtt == 2
\* ensure_header is called at most MaxCalls times in a row on one sheet.
MaxCalls == 2
\* The date window is computed on at most MaxDays consecutive days.
MaxDays == 3
\* /load-tenders is invoked at most MaxRuns times on one sheet.
MaxRuns == 3
\* The error log holds at most MaxLog events when it is read,
MaxLog == 3
\* with a limit of at most MaxLimit.
MaxLimit == 4
\* The size cap of a download is at most MaxSize bytes,
MaxSize == 3
\* the server delivers at most MaxChunks chunks
MaxChunks == 3
\* of at most MaxChunkLen bytes each.
MaxChunkLen == 2

\* Number of fixed leading columns of a row (the literal list of ensure_header).
FixedCols == 9

\* Milliseconds of timedelta(days=1), of dt_time(23, 59, 59), and the UTC
\* offsets of Europe/Moscow (UTC+3) and Asia/Novosibirsk (UTC+7).
DayMs == 86400000
EndOfDay == 86399000
MSK_TZ == 10800000
NSK_TZ == 25200000
UTC_TZ == 0

VARIABLES
    errors,             \* error_manager.errors, the process-wide error log
    sheet,              \* the spreadsheet: a sequence of rows, a row is a sequence of cells
    budget,             \* how many times the environment invokes /load-tenders
    run,                \* number of load_tenders invocations started so far
    pc,                 \* position of the running load_tenders call
    page,               \* load_tenders: page
    all_tenders,        \* load_tenders: all_tenders
    failed_pages,       \* load_tenders: failed_pages
    rows,               \* load_tenders: rows
    max_docs,           \* load_tenders: max_docs
    processing_errors,  \* load_tenders: processing_errors
    idx,                \* load_tenders: number of tenders the transform loop has handled
    response,           \* the value load_tenders returned
    requests,           \* history: the tender-page requests of this run, with their answers
    lastAtt,            \* history: the last fetch_attachments call of this run and its result
    calls,              \* history: the external operations of this run, in order
    attCounts,          \* history: len(attachments) of every fetch_attachments call of this run
    lastAppend,         \* history: how the append_rows call of this run ended
    sheet0,             \* history: the sheet and
    errors0,            \*   the error log when this run started
    ehCalls,            \* history: the direct calls of ensure_header and what they did
    connected,          \* history: how the get_sheet call of this run ended
    lastHeader,         \* history: how the ensure_header call of this run ended
    appended,           \* history: the rows append_rows calls of all runs added without raising
    runLog,             \* history: the status of the response of every earlier run
    mode,               \* which answers the environment gives: "any" or "plain"
    now_utc,            \* the instant datetime.now(UTC_TZ) returned, epoch ms
    sys_tz,             \* UTC offset of the time zone of the host, ms
    from_ts,            \* load_tenders: from_ts
    to_ts,              \* load_tenders: to_ts
    windows,            \* history: now_utc, from_ts and to_ts of the window computations so far
    url,                \* parse_doc: the suffix of url, "docx" or anything else ("doc")
    max_size_bytes,     \* download_file_with_limit: max_size_bytes
    head,               \* history: what the HEAD request for the url produced
    stream,             \* the chunks resp.iter_content delivers, in order
    delivered,          \* how many of them the for loop has taken
    chunks,             \* download_file_with_limit: chunks
    downloaded_size,    \* download_file_with_limit: downloaded_size
    limit               \* get_errors: limit

vars == <<errors, sheet, budget, run, pc, page, all_tenders, failed_pages, rows,
          max_docs, processing_errors, idx, response, requests, lastAtt, calls,
          attCounts, lastAppend, sheet0, errors0, ehCalls, connected, lastHeader,
          appended, runLog, mode, now_utc, sys_tz, from_ts, to_ts, windows,
          url, max_size_bytes, head, stream, delivered, chunks, downloaded_size, limit>>

\* The variables of the date window, of the document download and of the
\* error-log endpoint: load runs leave them alone.
winVars == <<now_utc, sys_tz, from_ts, to_ts, windows>>
dlVars == <<url, max_size_bytes, head, stream, delivered, chunks, downloaded_size>>
errVars == <<limit>>

\* ---------------------------------------------------------------- helpers
Max(a, b) == IF a >= b THEN a ELSE b

\* ---------------------------------------------------------------- error log
\* The dictionary send_notification appends (the timestamp is left out: it
\* carries no information about the failure).
ErrorData(error_type, stage, details) ==
    [error_type |-> error_type, stage |-> stage, details |-> details]

\* ErrorNotificationManager.send_notification: append one event to the log.
send_notification(log, error_type, stage, details) ==
    Append(log, ErrorData(error_type, stage, details))

NoResponse == [status |-> "none"]

\* ---------------------------------------------------------------- remote API
\* A tender as the listing API delivers it. shape "object" is a well-formed
\* record; "bad_customers" is a JSON object whose customers field is not a list
\* of objects (the transform raises on it); "not_object" is a list element that
\* is no JSON object at all (t.get itself raises).
Shapes == {"object", "bad_customers", "not_object"}

Tender(id, shape) == [id |-> id, shape |-> shape]

\* The non-empty tender lists the API may put on the next page when n tenders
\* were served on the earlier pages: ids continue the numbering of the listing.
PageBodies(n) ==
    UNION {{[i \in 1..k |-> Tender(n + i, s[i])] : s \in [1..k -> Shapes]} :
           k \in 1..(MaxTenders - n)}

\* What requests.get may produce: an HTTP response or an exception.
Http(status_code, json, body) ==
    [exc |-> "none", status_code |-> status_code, json |-> json, body |-> body]

Raised(exc) == [exc |-> exc, status_code |-> 0, json |-> "none", body |-> <<>>]

\* Answers of the tender-listing API to the request for one page. json is
\* "object" for a body {tenders: [...]}, "array" for valid JSON that is no
\* object, "malformed" when resp.json() raises ValueError.
PageReplies(n) ==
    {Http(200, "object", b) : b \in PageBodies(n) \cup {<<>>}}
    \cup {Http(401, "none", <<>>), Http(429, "none", <<>>), Http(500, "none", <<>>),
          Http(200, "malformed", <<>>), Http(200, "array", <<>>),
          Raised("Timeout"), Raised("ConnectionError")}

\* ---------------------------------------------------------------- load_tenders, stage 2
\* Result of one iteration of the pagination loop: the new values of the locals,
\* the log, and how the iteration ends: "next" (loop again), "break", "return".
LoopResult(pg, all, failed, log, ctl, resp) ==
    [page |-> pg, all_tenders |-> all, failed_pages |-> failed, errors |-> log,
     ctl |-> ctl, response |-> resp]

\* Variant of Page401 that leaves the loop with break, as the 429 branch does.
Page401AsBreak(pg, all, failed, log) ==
    LoopResult(pg, all, failed,
               send_notification(log, "TenderPlan API Error", "load tenders",
                                 [status_code |-> 401]),
               "break", NoResponse)

\* resp.status_code == 401: record the event and return the error response.
Page401(pg, all, failed, log) ==
    LoopResult(pg, all, failed,
               send_notification(log, "TenderPlan API Error", "load tenders",
                                 [status_code |-> 401]),
               "return", [status |-> "error", error |-> "Unauthorized"])

\* Variant of Page429 that returns an error response instead of breaking.
Page429Fatal(pg, all, failed, log) ==
    LoopResult(pg, all, failed,
               send_notification(log, "TenderPlan API Error", "load tenders",
                                 [status_code |-> 429, page |-> pg]),
               "return", [status |-> "error", error |-> "Too Many Requests"])

\* resp.status_code == 429: record the event and break.
Page429(pg, all, failed, log) ==
    LoopResult(pg, all, failed,
               send_notification(log, "TenderPlan API Error", "load tenders",
                                 [status_code |-> 429, page |-> pg]),
               "break", NoResponse)

\* Variant of PageOtherStatus that forgets failed_pages.append(page).
PageOtherStatusUnrecorded(status_code, pg, all, failed, log) ==
    LoopResult(pg, all, failed,
               send_notification(log, "TenderPlan API Error", "load tenders",
                                 [status_code |-> status_code, page |-> pg]),
               "break", NoResponse)

\* Any other status than 200: record the event, mark the page failed and break.
PageOtherStatus(status_code, pg, all, failed, log) ==
    LoopResult(pg, all, Append(failed, pg),
               send_notification(log, "TenderPlan API Error", "load tenders",
                                 [status_code |-> status_code, page |-> pg]),
               "break", NoResponse)

\* resp.json() raises ValueError: record the event, mark the page failed and break.
PageBadJson(pg, all, failed, log) ==
    LoopResult(pg, all, Append(failed, pg),
               send_notification(log, "TenderPlan API Error", "parse TenderPlan response",
                                 [page |-> pg]),
               "break", NoResponse)

\* except requests.Timeout / requests.ConnectionError / Exception: record the
\* event, mark the page failed and break.
PageException(exc, pg, all, failed, log) ==
    LoopResult(pg, all, Append(failed, pg),
               send_notification(log, "TenderPlan API Error", "load tenders",
                                 [page |-> pg, error |-> exc]),
               "break", NoResponse)

\* HTTP 200 with an empty (or missing) tender list: break.
PageEmpty(pg, all, failed, log) ==
    LoopResult(pg, all, failed, log, "break", NoResponse)

\* Variant of PageTenders that assigns the page to all_tenders instead of extending it.
PageTendersReplace(tenders, pg, all, failed, log) ==
    LoopResult(pg + 1, tenders, failed, log, "next", NoResponse)

\* HTTP 200 with tenders: all_tenders.extend(tenders); page += 1.
PageTenders(tenders, pg, all, failed, log) ==
    LoopResult(pg + 1, all \o tenders, failed, log, "next", NoResponse)

\* One iteration of "while True" for the reply the request got.
FetchStep(reply, pg, all, failed, log) ==
    IF reply.exc # "none" THEN PageException(reply.exc, pg, all, failed, log)
    ELSE IF reply.status_code = 401 THEN Page401(pg, all, failed, log)
    ELSE IF reply.status_code = 429 THEN Page429(pg, all, failed, log)
    ELSE IF reply.status_code # 200 THEN PageOtherStatus(reply.status_code, pg, all, failed, log)
    ELSE IF reply.json = "malformed" THEN PageBadJson(pg, all, failed, log)
    ELSE IF reply.json = "array" THEN PageException("AttributeError", pg, all, failed, log)
    ELSE IF reply.body = <<>> THEN PageEmpty(pg, all, failed, log)
    ELSE PageTenders(reply.body, pg, all, failed, log)

\* Variant of NoTenders that goes on to the spreadsheet with an empty list.
NoTendersIgnored(all) == FALSE

\* "if not all_tenders", the test after the pagination loop.
NoTenders(all) == all = <<>>

\* The response of a run that fetched nothing.
NoTendersResponse(failed) ==
    [status |-> "success", added |-> 0, failed_pages |-> failed]

\* ---------------------------------------------------------------- fetch_attachments
\* An item of the attachment API's JSON array; 0 stands for a missing or empty field.
Attachment(displayName, href) == [displayName |-> displayName, href |-> href]

FullItems(k) == [i \in 1..k |-> Attachment(i, i)]

\* The JSON arrays the attachment API may answer with: k complete items, or
\* k complete items followed by one that lacks its displayName or its href.
AttBodies ==
    {FullItems(k) : k \in 0..MaxAtt}
    \cup UNION {{FullItems(k) \o <<Attachment(0, k + 1)>>, FullItems(k) \o <<Attachment(k + 1, 0)>>} :
                k \in 0..(MaxAtt - 1)}

\* Answers of the attachment API: json is "list" for a JSON array, "object" for
\* valid JSON that is no array, "malformed" when resp.json() raises, "blank" for
\* an empty response text.
AttReplies ==
    {Http(200, "list", b) : b \in AttBodies}
    \cup {Http(200, "blank", <<>>), Http(200, "object", <<>>), Http(200, "malformed", <<>>),
          Http(401, "none", <<>>), Http(429, "none", <<>>), Http(500, "none", <<>>),
          Raised("Timeout"), Raised("ConnectionError")}

\* What fetch_attachments hands back: the list it returns and the log after it.
AttResult(attachments, log) == [attachments |-> attachments, errors |-> log]

\* Variant of AttStatus that returns [] without recording the event.
AttStatusSilent(tender_id, status_code, log) == AttResult(<<>>, log)

\* Status 401, 429 or any other non-200: record the event, return [].
AttStatus(tender_id, status_code, log) ==
    AttResult(<<>>, send_notification(log, "TenderPlan API Error", "get attachments",
                                      [tender_id |-> tender_id, status_code |-> status_code]))

\* except requests.ConnectionError: record the event, return [].
AttConnectionError(tender_id, log) ==
    AttResult(<<>>, send_notification(log, "TenderPlan API Error", "get attachments",
                                      [tender_id |-> tender_id, error |-> "ConnectionError"]))

\* except requests.Timeout, the non-list body and except Exception: logger only, return [].
AttLoggerOnly(tender_id, log) == AttResult(<<>>, log)

\* [a for a in data if a.get("displayName") and a.get("href")]
AttKept(data) == SelectSeq(data, LAMBDA a : a.displayName # 0 /\ a.href # 0)

fetch_attachments(tender_id, reply, log) ==
    IF reply.exc = "Timeout" THEN AttLoggerOnly(tender_id, log)
    ELSE IF reply.exc = "ConnectionError" THEN AttConnectionError(tender_id, log)
    ELSE IF reply.status_code # 200 THEN AttStatus(tender_id, reply.status_code, log)
    ELSE IF reply.json = "blank" THEN AttResult(<<>>, log)
    ELSE IF reply.json = "malformed" THEN AttLoggerOnly(tender_id, log)
    ELSE IF reply.json = "object" THEN AttLoggerOnly(tender_id, log)
    ELSE AttResult(AttKept(reply.body), log)

\* ---------------------------------------------------------------- load_tenders, stage 4
\* A spreadsheet cell is a pair <<column, value>>.
\* The attachment columns of a row: name and link of every attachment, in order.
AttCells(attachments) ==
    [i \in 1..(2 * Len(attachments)) |->
        IF i % 2 = 1 THEN <<"displayName", attachments[(i + 1) \div 2].displayName>>
                     ELSE <<"href", attachments[i \div 2].href>>]

\* The row built for tender t in the run stamped now_nsk_str.
Row(now_nsk_str, t, attachments) ==
    << <<"row_date", now_nsk_str>>, <<"tender_id", t.id>>, <<"orderName", t.id>>,
       <<"customers", t.id>>, <<"maxPrice", t.id>>, <<"link", t.id>>,
       <<"publicationDateTime", t.id>>, <<"submissionCloseDateTime", t.id>>,
       <<"placingWay", t.id>> >> \o AttCells(attachments)

\* Variant of NewMaxDocs that keeps the count of the last tender only.
NewMaxDocsLast(maxd, attachments) == Len(attachments)

\* max_docs = max(max_docs, len(attachments))
NewMaxDocs(maxd, attachments) == Max(maxd, Len(attachments))

\* Result of one iteration of the transform loop. ctl is "next", or "raise" when
\* an exception leaves the loop. called tells whether fetch_attachments ran.
TransformResult(rs, maxd, perrs, log, ctl, called, attachments) ==
    [rows |-> rs, max_docs |-> maxd, processing_errors |-> perrs, errors |-> log,
     ctl |-> ctl, called |-> called, attachments |-> attachments]

\* The except clause of the loop body: it evaluates t.get('_id'), which raises
\* again when t is no JSON object.
TransformExcept(t, rs, maxd, perrs, log) ==
    IF t.shape = "not_object"
    THEN TransformResult(rs, maxd, perrs, log, "raise", FALSE, <<>>)
    ELSE TransformResult(rs, maxd, Append(perrs, [tender_id |-> t.id, error |-> "TypeError"]),
                         log, "next", FALSE, <<>>)

\* The try block for a tender whose fields can be read.
TransformTry(now_nsk_str, t, reply, rs, maxd, perrs, log) ==
    LET got == fetch_attachments(t.id, reply, log)
    IN  TransformResult(Append(rs, Row(now_nsk_str, t, got.attachments)),
                        NewMaxDocs(maxd, got.attachments), perrs, got.errors,
                        "next", TRUE, got.attachments)

\* One iteration of "for idx, t in enumerate(all_tenders)".
TransformStep(now_nsk_str, t, reply, rs, maxd, perrs, log) ==
    IF t.shape = "object"
    THEN TransformTry(now_nsk_str, t, reply, rs, maxd, perrs, log)
    ELSE TransformExcept(t, rs, maxd, perrs, log)

\* Variant of UnexpectedError that lets the exception leave load_tenders.
UnexpectedErrorEscapes(log) == [errors |-> log, response |-> [status |-> "raised"]]

\* The outermost except clause of load_tenders.
UnexpectedError(log) ==
    [errors |-> send_notification(log, "Unknown Error", "main load process",
                                  [error |-> "AttributeError"]),
     response |-> [status |-> "error", error |-> "Unexpected Error"]]

\* ---------------------------------------------------------------- get_sheet
SheetOutcomes ==
    {"ok", "FileNotFoundError", "AuthenticationError", "SpreadsheetNotFound", "Exception"}

\* Variant of get_sheet whose except clauses re-raise without recording an event.
get_sheetUnrecorded(outcome, log) == [ok |-> outcome = "ok", errors |-> log]

\* get_sheet: every except clause records one event and re-raises.
get_sheet(outcome, log) ==
    IF outcome = "ok" THEN [ok |-> TRUE, errors |-> log]
    ELSE [ok |-> FALSE,
          errors |-> send_notification(
              log,
              IF outcome \in {"FileNotFoundError", "AuthenticationError"}
                  THEN "Google Authentication Error" ELSE "Google Sheets Error",
              "connect to Google Sheets", [error |-> outcome])]

\* load_tenders, stage 3: the response when get_sheet raised.
ConnectionErrorResponse == [status |-> "error", error |-> "Google Sheets Connection Error"]

\* ---------------------------------------------------------------- ensure_header
\* The header list for max_docs document column pairs.
Header(maxd) ==
    [i \in 1..FixedCols |-> <<"header", i>>]
    \o [i \in 1..(2 * maxd) |->
           IF i % 2 = 1 THEN <<"doc_name", (i + 1) \div 2>> ELSE <<"doc_link", i \div 2>>]

\* sheet.row_values(1)
row_values(sh) == IF sh = <<>> THEN <<>> ELSE sh[1]

\* sheet.delete_rows(1)
delete_rows(sh) == Tail(sh)

\* sheet.insert_row(header, 1)
insert_row(sh, header) == <<header>> \o sh

\* Which spreadsheet call of ensure_header raises (at: "none" for no failure)
\* and with which exception class.
HeaderFaults ==
    {[at |-> "none", exc |-> "none"]}
    \cup [at : {"row_values", "delete_rows", "insert_row"}, exc : {"APIError", "Exception"}]

HeaderResult(sh, ops, ok, log) == [sheet |-> sh, ops |-> ops, ok |-> ok, errors |-> log]

\* Both except clauses of ensure_header: record one event, re-raise.
HeaderFailed(sh, ops, exc, log) ==
    HeaderResult(sh, ops, FALSE,
                 send_notification(log, "Google Sheets Error", "header update",
                                   [error |-> exc]))

\* Variant of HeaderDiffers that rewrites the header without comparing.
HeaderAlwaysDiffers(first_row, header) == TRUE

\* if first_row != header: whether the header has to be rewritten.
HeaderDiffers(first_row, header) == first_row # header

ensure_header(sh, maxd, fault, log) ==
    LET header == Header(maxd)
        first_row == row_values(sh)
        afterDelete == IF first_row # <<>> THEN delete_rows(sh) ELSE sh
        opsDelete == IF first_row # <<>> THEN <<"row_values", "delete_rows">>
                                         ELSE <<"row_values">>
    IN  IF fault.at = "row_values" THEN HeaderFailed(sh, <<"row_values">>, fault.exc, log)
        ELSE IF ~HeaderDiffers(first_row, header) THEN HeaderResult(sh, <<"row_values">>, TRUE, log)
        ELSE IF first_row # <<>> /\ fault.at = "delete_rows"
             THEN HeaderFailed(sh, opsDelete, fault.exc, log)
        ELSE IF fault.at = "insert_row"
             THEN HeaderFailed(afterDelete, Append(opsDelete, "insert_row"), fault.exc, log)
        ELSE HeaderResult(insert_row(afterDelete, header), Append(opsDelete, "insert_row"),
                          TRUE, log)

\* load_tenders, stage 5: the response when ensure_header raised.
HeaderErrorResponse == [status |-> "error", error |-> "Header Update Error"]

\* ---------------------------------------------------------------- append
\* sheet.append_rows(rows): the rows are added below the last row.
append_rows(sh, rs) == sh \o rs

\* How the append_rows call ends: exc "none" is success; when it raises, the
\* write may or may not have reached the sheet (applied).
AppendFaults ==
    {[exc |-> "none", applied |-> TRUE]}
    \cup [exc : {"APIError", "Exception"}, applied : BOOLEAN]

\* Variant of AppendCalled without the "if rows" test.
AppendCalledAlways(rs) == TRUE

\* "if rows": append_rows is called for a non-empty batch only.
AppendCalled(rs) == rs # <<>>

\* The final response of a run whose append stage did not raise.
SuccessResponse(rs, all, perrs, failed) ==
    [status |-> "success", added |-> Len(rs), total_fetched |-> Len(all),
     processing_errors |-> Len(perrs), failed_pages |-> failed]

\* The response of the two except clauses around append_rows.
AppendErrorResponse(exc) ==
    [status |-> "error",
     error |-> IF exc = "APIError" THEN "Google Sheets API Error" ELSE "Data Upload Error"]

\* Stage 5 after the header: append the batch and build the response.
AppendStep(sh, rs, all, perrs, failed, fault, log) ==
    IF ~AppendCalled(rs)
    THEN [sheet |-> sh, ops |-> <<>>, errors |-> log,
          response |-> SuccessResponse(rs, all, perrs, failed)]
    ELSE IF fault.exc = "none"
    THEN [sheet |-> append_rows(sh, rs), ops |-> <<"append_rows">>, errors |-> log,
          response |-> SuccessResponse(rs, all, perrs, failed)]
    ELSE [sheet |-> IF fault.applied THEN append_rows(sh, rs) ELSE sh,
          ops |-> <<"append_rows">>,
          errors |-> send_notification(log, "Google Sheets Error", "upload data to Sheets",
                                       IF fault.exc = "APIError"
                                       THEN [rows_count |-> Len(rs), message |-> fault.exc]
                                       ELSE [error |-> fault.exc]),
          response |-> AppendErrorResponse(fault.exc)]

\* ---------------------------------------------------------------- environment
\* In mode "any" every external call may end in any way. In mode "plain", used
\* for sequences of runs, the remote APIs are in order: each run finds one
\* well-formed tender on page 0, an empty page 1 and a JSON array of complete
\* attachments; only the spreadsheet calls may fail, with one exception class.
PageRepliesIn(m, n) ==
    IF m = "any" THEN PageReplies(n)
    ELSE IF n = 0 THEN {Http(200, "object", <<Tender(1, "object")>>)}
    ELSE {Http(200, "object", <<>>)}

AttRepliesIn(m) ==
    IF m = "any" THEN AttReplies ELSE {Http(200, "list", FullItems(k)) : k \in 0..MaxAtt}

SheetOutcomesIn(m) == IF m = "any" THEN SheetOutcomes ELSE {"ok"}

HeaderFaultsIn(m) ==
    IF m = "any" THEN HeaderFaults ELSE {f \in HeaderFaults : f.exc # "Exception"}

AppendFaultsIn(m) ==
    IF m = "any" THEN AppendFaults ELSE {f \in AppendFaults : f.exc # "Exception"}

\* ---------------------------------------------------------------- state machine
NoAtt == [tender_id |-> 0, exc |-> "none", status_code |-> 0, json |-> "none",
          attachments |-> <<>>, logged |-> 0]

\* Rows an earlier run (stamped 0) left in the sheet for a tender with k attachments.
OldRow(k) == Row(0, Tender(k + 1, "object"), FullItems(k))

\* Contents the spreadsheet may have when the service starts: empty, a header
\* with rows of earlier runs, or rows without a header.
InitSheets ==
    {<<>>,
     <<Header(1), OldRow(1), OldRow(0)>>,
     <<OldRow(1)>>}

\* The locals of load_tenders and the history of a run, before the run starts.
RunReset ==
    /\ page = 0
    /\ all_tenders = <<>>
    /\ failed_pages = <<>>
    /\ rows = <<>>
    /\ max_docs = 0
    /\ processing_errors = <<>>
    /\ idx = 0
    /\ response = NoResponse
    /\ requests = <<>>
    /\ lastAtt = NoAtt
    /\ calls = <<>>
    /\ attCounts = <<>>
    /\ lastAppend = "none"
    /\ connected = "none"
    /\ lastHeader = "none"

\* No download started.
DownloadIdle ==
    /\ url = "doc"
    /\ max_size_bytes = 0
    /\ head = [exc |-> "none", content_length |-> 0]
    /\ stream = <<>>
    /\ delivered = 0
    /\ chunks = <<>>
    /\ downloaded_size = 0

\* No window computed, no download started, no read of the error log made.
OthersIdle ==
    /\ now_utc = 0
    /\ sys_tz = 0
    /\ from_ts = 0
    /\ to_ts = 0
    /\ windows = <<>>
    /\ DownloadIdle
    /\ limit = 0

\* The service after start-up: error_manager = ErrorNotificationManager(), no
\* request running. budget is the number of /load-tenders requests the
\* environment will make: one here, on a sheet with any of the contents above.
Init ==
    /\ errors = <<>>
    /\ sheet \in InitSheets
    /\ budget = 1
    /\ run = 0
    /\ pc = "idle"
    /\ RunReset
    /\ sheet0 = sheet
    /\ errors0 = <<>>
    /\ ehCalls = <<>>
    /\ appended = <<>>
    /\ runLog = <<>>
    /\ mode = "any"
    /\ OthersIdle

\* GET /load-tenders arrives: stage 1 sets up the locals.
LoadTenders ==
    /\ pc \in {"idle", "done"}
    /\ run < budget
    /\ run' = run + 1
    /\ pc' = "fetch"
    /\ page' = 0
    /\ all_tenders' = <<>>
    /\ failed_pages' = <<>>
    /\ rows' = <<>>
    /\ max_docs' = 0
    /\ processing_errors' = <<>>
    /\ idx' = 0
    /\ response' = NoResponse
    /\ requests' = <<>>
    /\ lastAtt' = NoAtt
    /\ calls' = <<>>
    /\ attCounts' = <<>>
    /\ lastAppend' = "none"
    /\ connected' = "none"
    /\ lastHeader' = "none"
    /\ sheet0' = sheet
    /\ errors0' = errors
    /\ runLog' = IF pc = "done" THEN Append(runLog, response.status) ELSE runLog
    /\ UNCHANGED <<errors, sheet, budget, ehCalls, appended, mode, winVars, dlVars, errVars>>

\* Stage 2: one iteration of the pagination loop, and on break the
\* "if not all_tenders" test that follows the loop.
FetchPage ==
    /\ pc = "fetch"
    /\ \E reply \in PageRepliesIn(mode, Len(all_tenders)) :
        LET r == FetchStep(reply, page, all_tenders, failed_pages, errors)
        IN  /\ page' = r.page
            /\ all_tenders' = r.all_tenders
            /\ failed_pages' = r.failed_pages
            /\ errors' = r.errors
            /\ requests' = Append(requests, [page |-> page, reply |-> reply])
            /\ calls' = Append(calls, "tenders_get")
            /\ pc' = IF r.ctl = "next" THEN "fetch"
                     ELSE IF r.ctl = "return" \/ NoTenders(r.all_tenders) THEN "done"
                     ELSE "connect"
            /\ response' = IF r.ctl = "return" THEN r.response
                           ELSE IF r.ctl = "break" /\ NoTenders(r.all_tenders)
                                THEN NoTendersResponse(r.failed_pages)
                           ELSE response
    /\ UNCHANGED <<sheet, budget, run, rows, max_docs, processing_errors, idx, lastAtt,
                   attCounts, lastAppend, sheet0, errors0, ehCalls, connected, lastHeader,
                   appended, runLog, mode, winVars, dlVars, errVars>>

\* Stage 3: get_sheet().
ConnectSheet ==
    /\ pc = "connect"
    /\ \E outcome \in SheetOutcomesIn(mode) :
        LET r == get_sheet(outcome, errors)
        IN  /\ errors' = r.errors
            /\ connected' = outcome
            /\ pc' = IF ~r.ok THEN "done"
                     ELSE IF all_tenders = <<>> THEN "header" ELSE "transform"
            /\ response' = IF r.ok THEN response ELSE ConnectionErrorResponse
    /\ calls' = Append(calls, "get_sheet")
    /\ UNCHANGED <<sheet, budget, run, page, all_tenders, failed_pages, rows, max_docs,
                   processing_errors, idx, requests, lastAtt, attCounts, lastAppend,
                   sheet0, errors0, ehCalls, lastHeader, appended, runLog, mode,
                   winVars, dlVars, errVars>>

\* The replies that matter for tender t: the attachment API is asked only for
\* a tender whose fields could be read.
AttRepliesFor(m, t) == IF t.shape = "object" THEN AttRepliesIn(m) ELSE {Raised("none")}

\* Stage 4: one iteration of the transform loop.
Transform ==
    /\ pc = "transform"
    /\ LET t == all_tenders[idx + 1]
       IN  \E reply \in AttRepliesFor(mode, t) :
            LET r == TransformStep(run, t, reply, rows, max_docs, processing_errors, errors)
                u == UnexpectedError(r.errors)
            IN  /\ rows' = r.rows
                /\ max_docs' = r.max_docs
                /\ processing_errors' = r.processing_errors
                /\ errors' = IF r.ctl = "raise" THEN u.errors ELSE r.errors
                /\ response' = IF r.ctl = "raise" THEN u.response ELSE response
                /\ idx' = idx + 1
                /\ pc' = IF r.ctl = "raise" THEN "done"
                         ELSE IF idx + 1 = Len(all_tenders) THEN "header"
                         ELSE "transform"
                /\ lastAtt' = IF r.called
                              THEN [tender_id |-> t.id, exc |-> reply.exc,
                                    status_code |-> reply.status_code, json |-> reply.json,
                                    attachments |-> r.attachments,
                                    logged |-> Len(r.errors) - Len(errors)]
                              ELSE lastAtt
                /\ calls' = IF r.called THEN Append(calls, "attachments_get") ELSE calls
                /\ attCounts' = IF r.called THEN Append(attCounts, Len(r.attachments))
                                ELSE attCounts
    /\ UNCHANGED <<sheet, budget, run, page, all_tenders, failed_pages, requests,
                   lastAppend, sheet0, errors0, ehCalls, connected, lastHeader, appended,
                   runLog, mode, winVars, dlVars, errVars>>

\* Stage 5, first half: ensure_header(sheet, max_docs).
EnsureHeader ==
    /\ pc = "header"
    /\ \E fault \in HeaderFaultsIn(mode) :
        LET r == ensure_header(sheet, max_docs, fault, errors)
        IN  /\ sheet' = r.sheet
            /\ errors' = r.errors
            /\ calls' = calls \o r.ops
            /\ lastHeader' = IF r.ok THEN "ok" ELSE "failed"
            /\ pc' = IF r.ok THEN "append" ELSE "done"
            /\ response' = IF r.ok THEN response ELSE HeaderErrorResponse
    /\ UNCHANGED <<budget, run, page, all_tenders, failed_pages, rows, max_docs,
                   processing_errors, idx, requests, lastAtt, attCounts, lastAppend,
                   sheet0, errors0, ehCalls, connected, appended, runLog, mode,
                   winVars, dlVars, errVars>>

\* Stage 5, second half: append_rows and the final response.
AppendRows ==
    /\ pc = "append"
    /\ \E fault \in AppendFaultsIn(mode) :
        LET r == AppendStep(sheet, rows, all_tenders, processing_errors, failed_pages,
                            fault, errors)
        IN  /\ sheet' = r.sheet
            /\ errors' = r.errors
            /\ calls' = calls \o r.ops
            /\ response' = r.response
            /\ lastAppend' = IF r.ops = <<>> THEN "none"
                             ELSE IF fault.exc = "none" THEN "ok" ELSE fault.exc
            /\ appended' = IF r.ops # <<>> /\ fault.exc = "none" THEN appended \o rows
                           ELSE appended
    /\ pc' = "done"
    /\ UNCHANGED <<budget, run, page, all_tenders, failed_pages, rows, max_docs,
                   processing_errors, idx, requests, lastAtt, attCounts, sheet0, errors0,
                   ehCalls, connected, lastHeader, runLog, mode, winVars, dlVars, errVars>>

Next ==
    \/ LoadTenders
    \/ FetchPage
    \/ ConnectSheet
    \/ Transform
    \/ EnsureHeader
    \/ AppendRows

Spec == Init /\ [][Next]_vars

\* ---------------------------------------------------------------- load_tenders, run after run
\* The service starts on an empty sheet and /load-tenders is invoked up to
\* MaxRuns times, one run after the other, with the remote APIs in order and
\* any spreadsheet call free to fail.
InitRuns ==
    /\ errors = <<>>
    /\ sheet = <<>>
    /\ budget = MaxRuns
    /\ run = 0
    /\ pc = "idle"
    /\ RunReset
    /\ sheet0 = <<>>
    /\ errors0 = <<>>
    /\ ehCalls = <<>>
    /\ appended = <<>>
    /\ runLog = <<>>
    /\ mode = "plain"
    /\ OthersIdle

SpecRuns == InitRuns /\ [][Next]_vars

\* ---------------------------------------------------------------- ensure_header on its own
\* Contents of the sheet ensure_header may meet: those of InitSheets, sheets
\* with the narrowest and the widest header, and one whose first row is a
\* foreign short row.
HeaderSheets ==
    InitSheets
    \cup {<<Header(0), OldRow(0)>>, <<Header(MaxAtt)>>, << <<<<"header", 1>>>>, OldRow(0) >>}

InitHeader ==
    /\ errors = <<>>
    /\ sheet \in HeaderSheets
    /\ budget = 0
    /\ run = 0
    /\ pc = "direct"
    /\ RunReset
    /\ sheet0 = sheet
    /\ errors0 = <<>>
    /\ ehCalls = <<>>
    /\ appended = <<>>
    /\ runLog = <<>>
    /\ mode = "any"
    /\ OthersIdle

\* A caller invokes ensure_header(sheet, max_docs) directly.
EnsureHeaderCall ==
    /\ pc = "direct"
    /\ Len(ehCalls) < MaxCalls
    /\ \E maxd \in 0..MaxAtt, fault \in HeaderFaults :
        LET r == ensure_header(sheet, maxd, fault, errors)
        IN  /\ sheet' = r.sheet
            /\ errors' = r.errors
            /\ ehCalls' = Append(ehCalls, [max_docs |-> maxd, ok |-> r.ok, ops |-> r.ops,
                                           before |-> sheet, after |-> r.sheet])
    /\ UNCHANGED <<budget, run, pc, page, all_tenders, failed_pages, rows, max_docs,
                   processing_errors, idx, response, requests, lastAtt, calls, attCounts,
                   lastAppend, sheet0, errors0, connected, lastHeader, appended, runLog,
                   mode, winVars, dlVars, errVars>>

SpecHeader == InitHeader /\ [][EnsureHeaderCall]_vars

\* ---------------------------------------------------------------- load_tenders, stage 1
\* An aware datetime is the instant it denotes (epoch ms) and the UTC offset
\* of its zone; a naive datetime is the wall-clock reading, in ms since
\* 1970-01-01 00:00 of that wall clock.
Aware(instant, tz) == [instant |-> instant, tz |-> tz]

\* dt.astimezone(tz): the same instant, read in another zone.
astimezone(dt, tz) == Aware(dt.instant, tz)

\* dt.replace(tzinfo=None): the wall-clock reading of an aware datetime.
replace_tzinfo_none(dt) == dt.instant + dt.tz

\* dt.date(), as a day number.
date(naive) == naive \div DayMs

\* datetime.combine(day, time of day)
combine(day, tod) == day * DayMs + tod

\* tz.localize(naive): the instant at which the wall clock of tz reads naive.
localize(tz, naive) == Aware(naive - tz, tz)

\* tender_ts(dt) for a naive dt: datetime.timestamp() reads a naive datetime
\* in the time zone of the host (UTC offset sys), and int(seconds * 1000) is
\* exact for the whole seconds the window is made of.
tender_ts(naive, sys) == naive - sys

\* The window load_tenders computes when datetime.now(UTC_TZ) is the instant now.
Window(now, sys) ==
    LET now_nsk == astimezone(Aware(now, UTC_TZ), NSK_TZ)
        target_day_nsk == date(replace_tzinfo_none(now_nsk) - DayMs)
        start_nsk == localize(NSK_TZ, combine(target_day_nsk, 0))
        end_nsk == localize(NSK_TZ, combine(target_day_nsk, EndOfDay))
        start_msk == astimezone(start_nsk, MSK_TZ)
        end_msk == astimezone(end_nsk, MSK_TZ)
    IN  [from_ts |-> tender_ts(replace_tzinfo_none(astimezone(start_msk, UTC_TZ)), sys),
         to_ts |-> tender_ts(replace_tzinfo_none(astimezone(end_msk, UTC_TZ)), sys)]

\* Time zones the host may be configured with: UTC, Moscow, Novosibirsk.
SysZones == {UTC_TZ, MSK_TZ, NSK_TZ}

\* Novosibirsk times of day at which the load may be triggered: around local
\* midnight, around UTC midnight, and in the last second of the day.
TimesOfDay == {0, 1, NSK_TZ - 1, NSK_TZ, EndOfDay, DayMs - 1}

InitWindow ==
    /\ errors = <<>>
    /\ sheet = <<>>
    /\ budget = 0
    /\ run = 0
    /\ pc = "window"
    /\ RunReset
    /\ sheet0 = <<>>
    /\ errors0 = <<>>
    /\ ehCalls = <<>>
    /\ appended = <<>>
    /\ runLog = <<>>
    /\ mode = "any"
    /\ now_utc = 0
    /\ sys_tz \in SysZones
    /\ from_ts = 0
    /\ to_ts = 0
    /\ windows = <<>>
    /\ DownloadIdle
    /\ limit = 0

\* Stage 1 of a load triggered on the next Novosibirsk day, at any time of day
\* (the first on Novosibirsk day 1).
ComputeWindow ==
    /\ pc = "window"
    /\ Len(windows) < MaxDays
    /\ \E tod \in TimesOfDay :
        LET now == localize(NSK_TZ, combine(1 + Len(windows), tod)).instant
            w == Window(now, sys_tz)
        IN  /\ now_utc' = now
            /\ from_ts' = w.from_ts
            /\ to_ts' = w.to_ts
            /\ windows' = Append(windows, [now_utc |-> now, from_ts |-> w.from_ts,
                                           to_ts |-> w.to_ts])
    /\ UNCHANGED <<errors, sheet, budget, run, pc, page, all_tenders, failed_pages, rows,
                   max_docs, processing_errors, idx, response, requests, lastAtt, calls,
                   attCounts, lastAppend, sheet0, errors0, ehCalls, connected, lastHeader,
                   appended, runLog, mode, sys_tz, dlVars, errVars>>

SpecWindow == InitWindow /\ [][ComputeWindow]_vars

\* ---------------------------------------------------------------- download_file_with_limit
\* What a failed request of parse_doc ends with: an HTTPException.
HTTPException(status_code) == [status |-> "HTTPException", status_code |-> status_code]

\* What requests.head may produce: a response whose content-length header
\* reads content_length (0 when the header is missing), or an exception
\* (ValueError stands for a header int() cannot read).
HeadReplies ==
    {[exc |-> "none", content_length |-> n] : n \in 0..(MaxSize + 1)}
    \cup {[exc |-> e, content_length |-> 0] : e \in {"Timeout", "ConnectionError", "ValueError"}}

\* The except clauses of the inner try statement: "except requests.Timeout"
\* and "except Exception" both log a warning and fall through to the GET;
\* every exception raised in that try statement, the HTTPException of the
\* size check included, is an Exception.
HeadExcept(exc) == "get"

\* if file_size > max_size_bytes
HeadOversize(file_size, cap) == file_size > cap

\* The pre-flight size probe: what it adds to the log and how it goes on
\* ("get": the streamed GET follows; "raise": 413 leaves the function).
head_probe(h, cap, log) ==
    IF h.exc # "none" THEN [errors |-> log, ctl |-> HeadExcept(h.exc)]
    ELSE IF HeadOversize(h.content_length, cap)
    THEN [errors |-> send_notification(log, "File Size Error", "check file size",
                                       [file_size |-> h.content_length, max_size |-> cap]),
          ctl |-> HeadExcept("HTTPException")]
    ELSE [errors |-> log, ctl |-> "get"]

\* A chunk iter_content yields, by its length; or the exception the iteration raises.
Chunk(n) == [exc |-> "none", len |-> n]

Broken(exc) == [exc |-> exc, len |-> 0]

RECURSIVE ChunkSeqs(_)
\* The sequences of exactly n chunks.
ChunkSeqs(n) ==
    IF n = 0 THEN {<<>>}
    ELSE {Append(s, Chunk(k)) : s \in ChunkSeqs(n - 1), k \in 0..MaxChunkLen}

\* What the server may stream: up to MaxChunks chunks, or fewer chunks and
\* then a failure of the connection.
Streams ==
    UNION {ChunkSeqs(n) : n \in 0..MaxChunks}
    \cup UNION {{Append(s, Broken(e)) : s \in ChunkSeqs(n), e \in {"Timeout", "ChunkedEncodingError"}} :
                n \in 0..(MaxChunks - 1)}

\* What requests.get(url, stream=True) may produce.
GetReplies ==
    {[exc |-> "none", status_code |-> 200, stream |-> s] : s \in Streams}
    \cup {[exc |-> "none", status_code |-> 404, stream |-> <<>>],
          [exc |-> "Timeout", status_code |-> 0, stream |-> <<>>],
          [exc |-> "ConnectionError", status_code |-> 0, stream |-> <<>>]}

\* Variant of Oversize that lets the download grow to twice the cap.
OversizeTwice(size, cap) == size > 2 * cap

\* if downloaded_size > max_size_bytes
Oversize(size, cap) == size > cap

\* One iteration of "for chunk in resp.iter_content(...)".
StreamStep(chunk, size, kept, cap, log) ==
    IF chunk.exc # "none"
    THEN [downloaded_size |-> size, chunks |-> kept, errors |-> log, exc |-> chunk.exc]
    ELSE IF chunk.len = 0
    THEN [downloaded_size |-> size, chunks |-> kept, errors |-> log, exc |-> "none"]
    ELSE IF Oversize(size + chunk.len, cap)
    THEN [downloaded_size |-> size + chunk.len, chunks |-> kept,
          errors |-> send_notification(log, "File Size Error", "download file",
                                       [downloaded |-> size + chunk.len, max_size |-> cap]),
          exc |-> "HTTPException"]
    ELSE [downloaded_size |-> size + chunk.len, chunks |-> Append(kept, chunk.len),
          errors |-> log, exc |-> "none"]

\* The except clauses of the outer try statement, for an exception raised by
\* the GET; status_code is that of the response for an HTTPError, and 413 for
\* the HTTPException of the size checks.
DownloadExcept(exc, status_code, log) ==
    IF exc = "Timeout"
    THEN [errors |-> send_notification(log, "File Download Error", "download document",
                                       [timeout |-> TRUE]),
          response |-> HTTPException(408)]
    ELSE IF exc = "ConnectionError"
    THEN [errors |-> send_notification(log, "File Download Error", "download document",
                                       [error |-> exc]),
          response |-> HTTPException(503)]
    ELSE IF exc = "HTTPError"
    THEN [errors |-> send_notification(log, "File Download Error", "download document",
                                       [status_code |-> status_code]),
          response |-> HTTPException(status_code)]
    ELSE IF exc = "HTTPException"
    THEN [errors |-> log, response |-> HTTPException(status_code)]
    ELSE [errors |-> send_notification(log, "File Download Error", "download document",
                                       [error |-> exc]),
          response |-> HTTPException(500)]

RECURSIVE Sum(_)
\* len(b''.join(chunks)) for chunks given by their lengths.
Sum(ns) == IF ns = <<>> THEN 0 ELSE Head(ns) + Sum(Tail(ns))

\* How the parser chosen for the file ends.
ParserOutcomes == {"ok", "OxmlParseError", "Exception"}

\* Steps 2 to 4 of parse_doc: pick the parser by the suffix of the url, run it
\* on file_content, build the response.
ParseStep(ext, file_size, outcome, log) ==
    IF outcome = "ok" \/ (ext = "doc" /\ outcome = "OxmlParseError")
    THEN [errors |-> log,
          response |-> [status |-> "ok", text |-> "text", format |-> ext,
                        file_size |-> file_size]]
    ELSE [errors |-> send_notification(log, "Document Parse Error", "parse " \o ext,
                                       [error |-> outcome]),
          response |-> HTTPException(IF outcome = "OxmlParseError" THEN 422 ELSE 500)]

InitDownload ==
    /\ errors = <<>>
    /\ sheet = <<>>
    /\ budget = 0
    /\ run = 0
    /\ pc = "head"
    /\ RunReset
    /\ sheet0 = <<>>
    /\ errors0 = <<>>
    /\ ehCalls = <<>>
    /\ appended = <<>>
    /\ runLog = <<>>
    /\ mode = "any"
    /\ now_utc = 0
    /\ sys_tz = 0
    /\ from_ts = 0
    /\ to_ts = 0
    /\ windows = <<>>
    /\ url \in {"doc", "docx"}
    /\ max_size_bytes \in 1..MaxSize
    /\ head = [exc |-> "none", content_length |-> 0]
    /\ stream = <<>>
    /\ delivered = 0
    /\ chunks = <<>>
    /\ downloaded_size = 0
    /\ limit = 0

\* POST /parse-doc: download_file_with_limit starts with the HEAD request.
HeadProbe ==
    /\ pc = "head"
    /\ \E h \in HeadReplies :
        LET r == head_probe(h, max_size_bytes, errors)
            x == DownloadExcept("HTTPException", 413, r.errors)
        IN  /\ head' = h
            /\ errors' = x.errors
            /\ pc' = IF r.ctl = "get" THEN "get" ELSE "done"
            /\ response' = IF r.ctl = "get" THEN response ELSE x.response
    /\ calls' = Append(calls, "head")
    /\ UNCHANGED <<sheet, budget, run, page, all_tenders, failed_pages, rows, max_docs,
                   processing_errors, idx, requests, lastAtt, attCounts, lastAppend,
                   sheet0, errors0, ehCalls, connected, lastHeader, appended, runLog,
                   mode, winVars, url, max_size_bytes, stream, delivered, chunks,
                   downloaded_size, errVars>>

\* requests.get(url, stream=True) and resp.raise_for_status().
OpenStream ==
    /\ pc = "get"
    /\ \E g \in GetReplies :
        LET exc == IF g.exc # "none" THEN g.exc
                   ELSE IF g.status_code # 200 THEN "HTTPError" ELSE "none"
            x == DownloadExcept(exc, g.status_code, errors)
        IN  /\ stream' = g.stream
            /\ errors' = IF exc = "none" THEN errors ELSE x.errors
            /\ response' = IF exc = "none" THEN response ELSE x.response
            /\ pc' = IF exc = "none" THEN "stream" ELSE "done"
    /\ calls' = Append(calls, "get")
    /\ UNCHANGED <<sheet, budget, run, page, all_tenders, failed_pages, rows, max_docs,
                   processing_errors, idx, requests, lastAtt, attCounts, lastAppend,
                   sheet0, errors0, ehCalls, connected, lastHeader, appended, runLog,
                   mode, winVars, url, max_size_bytes, head, delivered, chunks,
                   downloaded_size, errVars>>

\* The for loop takes the next chunk.
ReadChunk ==
    /\ pc = "stream"
    /\ delivered < Len(stream)
    /\ LET r == StreamStep(stream[delivered + 1], downloaded_size, chunks, max_size_bytes,
                           errors)
           x == DownloadExcept(r.exc, 413, r.errors)
       IN  /\ delivered' = delivered + 1
           /\ downloaded_size' = r.downloaded_size
           /\ chunks' = r.chunks
           /\ errors' = IF r.exc = "none" THEN r.errors ELSE x.errors
           /\ response' = IF r.exc = "none" THEN response ELSE x.response
           /\ pc' = IF r.exc = "none" THEN "stream" ELSE "done"
    /\ UNCHANGED <<sheet, budget, run, page, all_tenders, failed_pages, rows, max_docs,
                   processing_errors, idx, requests, lastAtt, calls, attCounts, lastAppend,
                   sheet0, errors0, ehCalls, connected, lastHeader, appended, runLog,
                   mode, winVars, url, max_size_bytes, head, stream, errVars>>

\* The stream has ended: download_file_with_limit returns b''.join(chunks) and
\* parse_doc runs the parser on it.
Parse ==
    /\ pc = "stream"
    /\ delivered = Len(stream)
    /\ \E outcome \in ParserOutcomes :
        LET r == ParseStep(url, Sum(chunks), outcome, errors)
        IN  /\ errors' = r.errors
            /\ response' = r.response
    /\ calls' = Append(calls, "parse_" \o url)
    /\ pc' = "done"
    /\ UNCHANGED <<sheet, budget, run, page, all_tenders, failed_pages, rows, max_docs,
                   processing_errors, idx, requests, lastAtt, attCounts, lastAppend,
                   sheet0, errors0, ehCalls, connected, lastHeader, appended, runLog,
                   mode, winVars, dlVars, errVars>>

NextDownload ==
    \/ HeadProbe
    \/ OpenStream
    \/ ReadChunk
    \/ Parse

SpecDownload == InitDownload /\ [][NextDownload]_vars

\* ---------------------------------------------------------------- get_errors
\* seq[start:] of Python for a list of length Len(seq): a negative start
\* counts from the end, and a start outside the list is clamped.
SliceFrom(seq, start) ==
    LET n == Len(seq)
        from == IF start < 0 THEN Max(n + start, 0) ELSE IF start > n THEN n ELSE start
    IN  SubSeq(seq, from + 1, n)

\* min(a, b)
min(a, b) == IF a <= b THEN a ELSE b

\* GET /errors?limit=...
get_errors(log, lim) ==
    [error_count |-> Len(log), showing |-> min(lim, Len(log)),
     errors |-> SliceFrom(log, 0 - lim)]

\* The events components record while the endpoint is in use.
SomeEvents ==
    {ErrorData("TenderPlan API Error", "load tenders", [status_code |-> 500, page |-> 0]),
     ErrorData("Google Sheets Error", "header update", [error |-> "APIError"])}

InitErrors ==
    /\ errors = <<>>
    /\ sheet = <<>>
    /\ budget = 0
    /\ run = 0
    /\ pc = "serving"
    /\ RunReset
    /\ sheet0 = <<>>
    /\ errors0 = <<>>
    /\ ehCalls = <<>>
    /\ appended = <<>>
    /\ runLog = <<>>
    /\ mode = "any"
    /\ OthersIdle

\* Some component calls error_manager.send_notification.
Notify ==
    /\ pc = "serving"
    /\ Len(errors) < MaxLog
    /\ \E e \in SomeEvents :
        errors' = send_notification(errors, e.error_type, e.stage, e.details)
    /\ UNCHANGED <<sheet, budget, run, pc, page, all_tenders, failed_pages, rows, max_docs,
                   processing_errors, idx, response, requests, lastAtt, calls, attCounts,
                   lastAppend, sheet0, errors0, ehCalls, connected, lastHeader, appended,
                   runLog, mode, winVars, dlVars, errVars>>

\* GET /errors arrives with some limit; errors0 keeps the log it was served from.
GetErrors ==
    /\ pc = "serving"
    /\ \E lim \in (0 - 1)..MaxLimit :
        /\ limit' = lim
        /\ response' = get_errors(errors, lim)
    /\ errors0' = errors
    /\ UNCHANGED <<errors, sheet, budget, run, pc, page, all_tenders, failed_pages, rows,
                   max_docs, processing_errors, idx, requests, lastAtt, calls, attCounts,
                   lastAppend, sheet0, ehCalls, connected, lastHeader, appended, runLog,
                   mode, winVars, dlVars>>

NextErrors ==
    \/ Notify
    \/ GetErrors

SpecErrors == InitErrors /\ [][NextErrors]_vars

\* ---------------------------------------------------------------- properties: date window
\* Epoch ms of the Novosibirsk midnight that starts the day before the
\* Novosibirsk date of the instant now.
YesterdayMidnight(now) == (((now + NSK_TZ) \div DayMs) - 1) * DayMs - NSK_TZ

\* C13 (as claimed): the window computed at any instant has from_ts < to_ts,
\* from_ts is the epoch-millisecond value of the local midnight that starts
\* the day before now's local date, and the window spans that whole day and
\* no more: it ends with the last millisecond of the day or at the next midnight.
C13_WindowIsOneDay ==
    windows # <<>>
    => /\ from_ts < to_ts
       /\ from_ts = YesterdayMidnight(now_utc)
       /\ to_ts >= from_ts + DayMs - 1
       /\ to_ts <= from_ts + DayMs

\* C18 (as claimed): the windows of loads made on consecutive days are
\* adjacent, to_ts of the earlier being from_ts of the later.
C18_WindowsAdjacent ==
    \A i \in 1..(Len(windows) - 1) : windows[i].to_ts = windows[i + 1].from_ts

\* ---------------------------------------------------------------- properties: pagination
Last(seq) == seq[Len(seq)]

RECURSIVE Flatten(_)
\* The concatenation of a sequence of sequences.
Flatten(seqs) == IF seqs = <<>> THEN <<>> ELSE Head(seqs) \o Flatten(Tail(seqs))

\* The tender lists of the first n requests of this run, in request order.
BodiesOf(n) == [i \in 1..n |-> requests[i].reply.body]

\* The request answered HTTP 200 with a JSON object.
Is200(req) == req.reply.exc = "none" /\ req.reply.status_code = 200 /\ req.reply.json = "object"

\* All requests but the last got a non-empty tender list.
EarlierPagesFull ==
    \A i \in 1..(Len(requests) - 1) : Is200(requests[i]) /\ requests[i].reply.body # <<>>

\* The page numbers requested in this run, in request order.
PagesRequested == [i \in 1..Len(requests) |-> requests[i].page]

\* The events this run has added to the error log.
NewErrors == SubSeq(errors, Len(errors0) + 1, Len(errors))

\* The run went on to the spreadsheet stage after the pagination loop.
WentOn ==
    \/ pc \in {"connect", "transform", "header", "append"}
    \/ (pc = "done" /\ "get_sheet" \in {calls[i] : i \in 1..Len(calls)})

\* The run ended with the full success response.
FullSuccess == pc = "done" /\ response.status = "success" /\ "total_fetched" \in DOMAIN response

\* The rows at the bottom of the sheet are the batch of this run.
BatchAppended ==
    /\ Len(sheet) >= Len(rows)
    /\ SubSeq(sheet, Len(sheet) - Len(rows) + 1, Len(sheet)) = rows

\* The tenders of the batch whose fields can be read, in fetch order.
Readable == SelectSeq(all_tenders, LAMBDA t : t.shape = "object")

\* The tender ids of the rows of the batch, in row order.
RowIds == [i \in 1..Len(rows) |-> rows[i][2][2]]

\* C1: when every page 0..k-1 answers 200 with tenders and page k answers 200
\* with an empty list, the pages requested are exactly 0, 1, ..., k in this
\* order, all_tenders is the concatenation of the k pages and failed_pages is empty.
C1_CompletePagination ==
    (/\ requests # <<>>
     /\ EarlierPagesFull
     /\ Is200(Last(requests))
     /\ Last(requests).reply.body = <<>>)
    => /\ PagesRequested = [i \in 1..Len(requests) |-> i - 1]
       /\ all_tenders = Flatten(BodiesOf(Len(requests) - 1))
       /\ failed_pages = <<>>
       /\ pc # "fetch"

\* C1 witness: two pages with tenders, then the empty page.
C1_Witness ==
    /\ Len(requests) = 3
    /\ EarlierPagesFull
    /\ Is200(Last(requests))
    /\ Last(requests).reply.body = <<>>
    /\ Len(all_tenders) = 2

\* C2: HTTP 401 on any page ends the run at once with the error response
\* "Unauthorized"; the run made no call but tender-page requests, left the
\* sheet as it was and built no row from the pages fetched before.
C2_UnauthorizedAborts ==
    (requests # <<>> /\ Last(requests).reply.status_code = 401)
    => /\ pc = "done"
       /\ response = [status |-> "error", error |-> "Unauthorized"]
       /\ calls = [i \in 1..Len(requests) |-> "tenders_get"]
       /\ sheet = sheet0
       /\ rows = <<>>
       /\ "added" \notin DOMAIN response

\* C2 witness: 401 on page 1, after page 0 delivered tenders.
C2_Witness ==
    /\ Len(requests) = 2
    /\ Last(requests).reply.status_code = 401
    /\ all_tenders # <<>>
    /\ pc = "done"

\* The last page request failed on one of the "other failure" paths.
LastPageFailed ==
    /\ requests # <<>>
    /\ \/ Last(requests).reply.exc \in {"Timeout", "ConnectionError"}
       \/ Last(requests).reply.status_code = 500
       \/ (Last(requests).reply.status_code = 200 /\ Last(requests).reply.json = "malformed")

\* C3: a page p failing with another status, malformed JSON, a timeout or a
\* connection error ends the pagination (no retry, no later page), failed_pages
\* is exactly <<p>>, the tenders of pages 0..p-1 are kept, the run goes on to
\* the spreadsheet with them, and a successful end reports failed_pages and has
\* appended the rows of those tenders.
C3_PageFailureKeepsPartial ==
    LastPageFailed
    => /\ pc # "fetch"
       /\ EarlierPagesFull
       /\ PagesRequested = [i \in 1..Len(requests) |-> i - 1]
       /\ failed_pages = <<Last(requests).page>>
       /\ all_tenders = Flatten(BodiesOf(Len(requests) - 1))
       /\ (all_tenders # <<>> => WentOn)
       /\ (all_tenders = <<>> => response = NoTendersResponse(failed_pages))
       /\ (FullSuccess => /\ response.failed_pages = <<Last(requests).page>>
                          /\ RowIds = [i \in 1..Len(Readable) |-> Readable[i].id]
                          /\ BatchAppended)

\* C3 witness: page 1 fails after page 0 delivered a tender, and the run ends
\* successfully with that tender's row in the sheet.
C3_Witness ==
    /\ LastPageFailed
    /\ Len(requests) = 2
    /\ FullSuccess
    /\ response.added = 1
    /\ lastAppend = "ok"

\* C4: HTTP 429 on page p ends the pagination without a further request, one
\* error event for it is in the error log, and the run is not fatal: it goes on
\* with the tenders of pages 0..p-1 (or answers success with added = 0 when
\* there are none) and a successful end has appended the rows of those tenders.
C4_RateLimitStopsEarly ==
    (requests # <<>> /\ Last(requests).reply.status_code = 429)
    => /\ pc # "fetch"
       /\ PagesRequested = [i \in 1..Len(requests) |-> i - 1]
       /\ all_tenders = Flatten(BodiesOf(Len(requests) - 1))
       /\ NewErrors # <<>>
       /\ NewErrors[1] = ErrorData("TenderPlan API Error", "load tenders",
                                   [status_code |-> 429, page |-> Last(requests).page])
       /\ (all_tenders # <<>> => WentOn)
       /\ (all_tenders = <<>> => response = NoTendersResponse(<<>>))
       /\ (FullSuccess => /\ RowIds = [i \in 1..Len(Readable) |-> Readable[i].id]
                          /\ BatchAppended)

\* C4 witness: 429 on page 1 after page 0 delivered a tender, and the run ends
\* successfully with that tender's row appended.
C4_Witness ==
    /\ Len(requests) = 2
    /\ Last(requests).reply.status_code = 429
    /\ FullSuccess
    /\ response.added = 1
    /\ lastAppend = "ok"

\* ---------------------------------------------------------------- properties: transform
\* The last fetch_attachments call of this run ended on a failure path.
LastAttFailed ==
    /\ lastAtt.tender_id # 0
    /\ \/ lastAtt.exc \in {"Timeout", "ConnectionError"}
       \/ lastAtt.status_code \in {401, 429, 500}
       \/ (lastAtt.status_code = 200 /\ lastAtt.json \in {"object", "malformed"})

\* The rows of the batch built for tender id.
RowsOf(id) == {i \in 1..Len(rows) : rows[i][2] = <<"tender_id", id>>}

\* The entries of the per-run processing-error list for tender id.
ProcessingErrorsOf(id) ==
    {i \in 1..Len(processing_errors) : processing_errors[i].tender_id = id}

\* C5 (as claimed): a tender whose transform fails is skipped with one entry in
\* processing_errors and the loop goes on, so each handled tender gave a row
\* or an entry, the loop never ends before the last tender, and a success
\* response has added + processing_errors = total_fetched with the rows of
\* the non-failing tenders in fetch order.
C5_TransformFailureSkipsOne ==
    /\ idx = Len(rows) + Len(processing_errors)
    /\ (pc = "done" /\ idx > 0 => idx = Len(all_tenders))
    /\ (FullSuccess => /\ response.added + response.processing_errors = response.total_fetched
                       /\ RowIds = [i \in 1..Len(Readable) |-> Readable[i].id])

\* C6 (as claimed): after an attachment request for tender X answered 500, the
\* batch holds the row of X with exactly the fixed columns and the per-run
\* processing-error list holds one entry for X.
C6_AttachmentFailureListed ==
    (lastAtt.tender_id # 0 /\ lastAtt.status_code = 500)
    => /\ \E i \in RowsOf(lastAtt.tender_id) : Len(rows[i]) = FixedCols
       /\ Cardinality(ProcessingErrorsOf(lastAtt.tender_id)) = 1

\* C6 (amended): after an attachment request for tender X failed on any path,
\* the batch holds exactly one row of X, with exactly the fixed columns, and
\* the per-run processing-error list holds no entry for X; when the failure is
\* an HTTP status other than 200, exactly one event carrying the tender id and
\* the status is added to the process-wide error log instead.
C6_AttachmentFailureKeepsRow ==
    LastAttFailed
    => /\ lastAtt.attachments = <<>>
       /\ Cardinality(RowsOf(lastAtt.tender_id)) = 1
       /\ \A i \in RowsOf(lastAtt.tender_id) : Len(rows[i]) = FixedCols
       /\ ProcessingErrorsOf(lastAtt.tender_id) = {}
       /\ (lastAtt.status_code \in {401, 429, 500}
           => /\ lastAtt.logged = 1
              /\ \E j \in 1..Len(NewErrors) :
                    NewErrors[j] = ErrorData("TenderPlan API Error", "get attachments",
                                             [tender_id |-> lastAtt.tender_id,
                                              status_code |-> lastAtt.status_code]))

\* C6 witness: the first tender has attachments, the attachment request of the
\* second tender answered 500, and the run ended with the success response.
C6_Witness ==
    /\ lastAtt.status_code = 500
    /\ lastAtt.tender_id = 2
    /\ Len(rows) = 2
    /\ Len(rows[1]) > FixedCols
    /\ FullSuccess

\* C7 (as claimed): every failure path of fetch_attachments returns the empty
\* list and records exactly one event in the error log whose details carry the
\* tender id.
C7_AttachmentFailureLogged ==
    LastAttFailed
    => /\ lastAtt.attachments = <<>>
       /\ lastAtt.logged = 1
       /\ \E j \in 1..Len(NewErrors) :
             /\ "tender_id" \in DOMAIN NewErrors[j].details
             /\ NewErrors[j].details.tender_id = lastAtt.tender_id

\* ---------------------------------------------------------------- properties: header width
RECURSIVE MaxOf(_)
\* The largest number of a sequence of naturals, 0 for the empty one.
MaxOf(ns) == IF ns = <<>> THEN 0 ELSE Max(Head(ns), MaxOf(Tail(ns)))

\* C8: after ensure_header returned in a run (the run is about to append, or
\* ended with the full success response), the first row of the sheet has
\* exactly 9 + 2 * M columns, M the largest number of attachments
\* fetch_attachments returned for a tender of the batch.
C8_HeaderWidth ==
    (pc = "append" \/ FullSuccess)
    => /\ sheet # <<>>
       /\ Len(sheet[1]) = 9 + 2 * MaxOf(attCounts)
       /\ sheet[1][1] = <<"header", 1>>

\* C8 witness: uneven attachment counts, the largest not on the last tender.
C8_Witness ==
    /\ FullSuccess
    /\ Len(attCounts) = 2
    /\ attCounts[1] > attCounts[2]
    /\ attCounts[2] > 0

\* ---------------------------------------------------------------- properties: sink
\* C9: when a call ensure_header(sheet, m) returned normally, the first row of
\* the sheet is the header for m (9 + 2 * m columns, the fixed columns first,
\* the link of document m last), and a call with the same m right after it
\* makes no delete_rows and no insert_row call and leaves the sheet as it was.
C9_EnsureHeaderIdempotent ==
    \A i \in 1..(Len(ehCalls) - 1) :
        LET first == ehCalls[i]
            second == ehCalls[i + 1]
        IN  (first.ok /\ second.max_docs = first.max_docs)
            => /\ first.after # <<>>
               /\ Len(first.after[1]) = 9 + 2 * first.max_docs
               /\ first.after[1][1] = <<"header", 1>>
               /\ first.after[1][9] = <<"header", 9>>
               /\ (first.max_docs > 0
                   => Last(first.after[1]) = <<"doc_link", first.max_docs>>)
               /\ \A k \in 1..Len(second.ops) : second.ops[k] = "row_values"
               /\ second.after = second.before

\* C9 witness: the first call replaced a differing first row, the second call
\* with the same max_docs > 0 returned normally too.
C9_Witness ==
    /\ Len(ehCalls) = 2
    /\ ehCalls[1].ok
    /\ ehCalls[2].ok
    /\ ehCalls[1].max_docs = ehCalls[2].max_docs
    /\ ehCalls[1].max_docs > 0
    /\ ehCalls[1].ops = <<"row_values", "delete_rows", "insert_row">>
    /\ Len(ehCalls[1].before) > 1

\* The number of append_rows calls of this run.
AppendCount == Cardinality({i \in 1..Len(calls) : calls[i] = "append_rows"})

\* The events of this run recorded for the upload stage.
UploadEvents == {j \in 1..Len(NewErrors) : NewErrors[j].stage = "upload data to Sheets"}

\* C10: a run calls append_rows at most once and only with a non-empty batch,
\* a successful run with rows has put the whole batch at the bottom of the
\* sheet in that one call, and when the call raises the run ends (no second
\* call) with an error response that has no added field and with exactly one
\* Google Sheets Error event for the upload in the error log.
C10_SingleAppend ==
    /\ AppendCount <= 1
    /\ (AppendCount = 1 => rows # <<>> /\ pc = "done")
    /\ (FullSuccess /\ rows # <<>> => AppendCount = 1 /\ lastAppend = "ok" /\ BatchAppended)
    /\ (lastAppend \in {"APIError", "Exception"}
        => /\ pc = "done"
           /\ AppendCount = 1
           /\ response.status = "error"
           /\ "added" \notin DOMAIN response
           /\ Cardinality(UploadEvents) = 1
           /\ Last(errors).error_type = "Google Sheets Error"
           /\ Last(errors).stage = "upload data to Sheets")

\* C10 witness: the append_rows call for a batch of two rows raised.
C10_Witness ==
    /\ lastAppend = "APIError"
    /\ Len(rows) = 2
    /\ pc = "done"

\* ---------------------------------------------------------------- properties: failures
\* C11: when get_sheet fails in any of its ways, the run ends at once with the
\* structured error response "Google Sheets Connection Error": the run made no
\* call but tender-page requests and the get_sheet call itself (no attachment
\* request, no read or rewrite of the header, no append), the sheet is as it
\* was, and the last event of the error log is the one get_sheet recorded for
\* the failure.
C11_ConnectFailureAborts ==
    connected \notin {"none", "ok"}
    => /\ pc = "done"
       /\ response = ConnectionErrorResponse
       /\ calls = [i \in 1..Len(requests) |-> "tenders_get"] \o <<"get_sheet">>
       /\ sheet = sheet0
       /\ rows = <<>>
       /\ lastAtt = NoAtt
       /\ "added" \notin DOMAIN response
       /\ NewErrors # <<>>
       /\ Last(errors).stage = "connect to Google Sheets"
       /\ Last(errors).details = [error |-> connected]

\* C11 witness: two tenders were fetched and the spreadsheet was not found.
C11_Witness ==
    /\ connected = "SpreadsheetNotFound"
    /\ Len(all_tenders) = 2
    /\ pc = "done"

\* A stage of this run ended the run early: a page answered 401, get_sheet
\* raised, ensure_header raised, append_rows raised, or an exception left the
\* transform loop.
Aborted ==
    \/ (requests # <<>> /\ Last(requests).reply.status_code = 401)
    \/ connected \notin {"none", "ok"}
    \/ lastHeader = "failed"
    \/ lastAppend \in {"APIError", "Exception"}
    \/ (idx > 0 /\ all_tenders[idx].shape = "not_object")

\* C12: no exception leaves load_tenders. Whatever the tender API, the
\* attachment API and the spreadsheet calls do, a run that has ended returned
\* a response whose status is "success" or "error", and a run that a failure
\* ended early has ended with status "error" and an error message, without an
\* added field.
C12_AlwaysStructuredResponse ==
    /\ (pc = "done" => response.status \in {"success", "error"})
    /\ (pc \notin {"idle", "done"} => response = NoResponse)
    /\ (Aborted => /\ pc = "done"
                   /\ response.status = "error"
                   /\ DOMAIN response = {"status", "error"}
                   /\ response.error \in {"Unauthorized", "Google Sheets Connection Error",
                                          "Header Update Error", "Google Sheets API Error",
                                          "Data Upload Error", "Unexpected Error"})

\* C12 witness: insert_row raised after delete_rows had removed the first row.
C12_Witness ==
    /\ lastHeader = "failed"
    /\ Len(calls) >= 2
    /\ Last(calls) = "insert_row"
    /\ calls[Len(calls) - 1] = "delete_rows"
    /\ pc = "done"

\* ---------------------------------------------------------------- properties: download
\* C14 (as claimed): when the HEAD request answered with a content-length
\* greater than the cap, the download is rejected with HTTP 413 and the
\* streaming GET is never issued.
C14_ProbeRejectsOversize ==
    (pc # "head" /\ head.exc = "none" /\ head.content_length > max_size_bytes)
    => /\ pc = "done"
       /\ response = HTTPException(413)
       /\ \A i \in 1..Len(calls) : calls[i] # "get"

\* The bytes iter_content has delivered so far.
DeliveredSize == Sum([i \in 1..delivered |-> stream[i].len])

\* C15: during the streamed download the kept chunks never hold more than
\* max_size_bytes bytes and every delivered byte is counted; the download
\* stops at the first chunk that takes the count over the cap (the chunks
\* before it fitted, that chunk is not kept, no later chunk is taken), and
\* the request then ends with the 413 error of the size check: one File Size
\* Error event, no parser called, no text and no bytes in the response. A
\* response with text is only given for a file within the cap.
C15_StreamNeverExceedsCap ==
    /\ Sum(chunks) <= max_size_bytes
    /\ downloaded_size = DeliveredSize
    /\ (downloaded_size <= max_size_bytes => Sum(chunks) = downloaded_size)
    /\ (downloaded_size > max_size_bytes
        => /\ pc = "done"
           /\ response = HTTPException(413)
           /\ downloaded_size = Sum(chunks) + stream[delivered].len
           /\ \A i \in 1..Len(calls) : calls[i] \in {"head", "get"}
           /\ Last(errors) = ErrorData("File Size Error", "download file",
                                       [downloaded |-> downloaded_size,
                                        max_size |-> max_size_bytes]))
    /\ (pc = "done" /\ response.status = "ok"
        => /\ response.file_size = Sum(chunks)
           /\ response.file_size <= max_size_bytes
           /\ delivered = Len(stream))

\* C15 witness: the count went over the cap after a chunk had been kept and
\* before the stream had ended.
C15_Witness ==
    /\ downloaded_size > max_size_bytes
    /\ chunks # <<>>
    /\ delivered < Len(stream)
    /\ pc = "done"

\* ---------------------------------------------------------------- properties: run after run
\* C16 (as claimed): whatever spreadsheet calls failed in the runs so far,
\* every row an append_rows call of an earlier or the current run added
\* without raising is still in the sheet: header reconciliation has deleted
\* header rows only.
C16_NoDataRowDeleted ==
    \A i \in 1..Len(appended) : \E j \in 1..Len(sheet) : sheet[j] = appended[i]

\* Every run so far has ended, and ended with a success response.
AllRunsSucceeded ==
    /\ pc = "done"
    /\ response.status = "success"
    /\ \A i \in 1..Len(runLog) : runLog[i] = "success"

\* C17 (as claimed): after any sequence of successful runs, no row below the
\* first is wider than the first row, the header.
C17_RowsWithinHeader ==
    AllRunsSucceeded => \A j \in 2..Len(sheet) : Len(sheet[j]) <= Len(sheet[1])

\* ---------------------------------------------------------------- properties: order of calls
\* The stage an external operation belongs to.
Rank(op) ==
    CASE op = "tenders_get" -> 1
      [] op = "get_sheet" -> 2
      [] op = "attachments_get" -> 3
      [] op = "row_values" -> 4
      [] op = "delete_rows" -> 5
      [] op = "insert_row" -> 6
      [] op = "append_rows" -> 7

\* The external operations of this run that are op.
CallsOf(op) == {i \in 1..Len(calls) : calls[i] = op}

C19_WitnessEmpty ==
    /\ pc = "done"
    /\ all_tenders = <<>>
    /\ response = NoTendersResponse(<<>>)

\* ---------------------------------------------------------------- properties: error log
\* C20 (as claimed): a read of the error log with limit >= 0 reports the
\* length of the log as error_count, min(limit, error_count) as showing, and
\* returns exactly showing events, the most recently appended ones in append
\* order; the read leaves the log as it was (events recorded later only
\* extend it).
C20_CappedRead ==
    ("showing" \in DOMAIN response /\ limit >= 0)
    => /\ response.error_count = Len(errors0)
       /\ response.showing = min(limit, Len(errors0))
       /\ Len(response.errors) = response.showing
       /\ response.errors = SubSeq(errors0, Len(errors0) - response.showing + 1, Len(errors0))
       /\ Len(errors) >= Len(errors0)
       /\ SubSeq(errors, 1, Len(errors0)) = errors0

====
